---- MODULE Spec2Model ----
(***************************************************************************)
(* Model of the build helper of the microdragon kernel (scripts/):         *)
(* the task and bootloader registries, the staging of the disk directory,  *)
(* the 8.3 file name transform of the iso packaging and the pack pipeline. *)
(***************************************************************************)
EXTENDS Integers, Sequences, FiniteSets, TLC

(***************************************************************************)
(* Bounds of the model.                                                    *)
(***************************************************************************)
\* number of make_iso_compliant calls recorded in one packaging run
MaxCalls == 3
\* largest counter value a prefix reaches in the long-run specification
MaxUses == 101
\* number of objects (bootloader and task instances) created in one process
MaxObjects == 3
\* largest value of the clock that stamps modification times
MaxTime == 2
\* number of changes made to the file system from outside the program
MaxEnv == 2
\* number of times the pack command is run
MaxRuns == 2

(***************************************************************************)
(* Characters and strings.  A Python str is a sequence of one-character    *)
(* strings.                                                                *)
(***************************************************************************)
UpperLetters == {"A", "B", "C", "D", "E", "F", "G", "H", "I", "J", "K", "L", "M",
                 "N", "O", "P", "Q", "R", "S", "T", "U", "V", "W", "X", "Y", "Z"}

DigitChars == {"0", "1", "2", "3", "4", "5", "6", "7", "8", "9"}

\* pack.py:9
VALID_ISO_CHARS == UpperLetters \cup DigitChars \cup {"_"}

\* str.upper() on one character: ASCII lower case letters are mapped to
\* their upper case letter, every other character of the model is kept.
UpperChar(c) ==
    CASE c = "a" -> "A" [] c = "b" -> "B" [] c = "c" -> "C" [] c = "d" -> "D"
      [] c = "e" -> "E" [] c = "f" -> "F" [] c = "g" -> "G" [] c = "h" -> "H"
      [] c = "i" -> "I" [] c = "j" -> "J" [] c = "k" -> "K" [] c = "l" -> "L"
      [] c = "m" -> "M" [] c = "n" -> "N" [] c = "o" -> "O" [] c = "p" -> "P"
      [] c = "q" -> "Q" [] c = "r" -> "R" [] c = "s" -> "S" [] c = "t" -> "T"
      [] c = "u" -> "U" [] c = "v" -> "V" [] c = "w" -> "W" [] c = "x" -> "X"
      [] c = "y" -> "Y" [] c = "z" -> "Z"
      [] OTHER -> c

\* str.upper()
Upper(s) == [i \in 1..Len(s) |-> UpperChar(s[i])]

\* s[:n]
Take(s, n) == IF Len(s) <= n THEN s ELSE SubSeq(s, 1, n)

\* os.path.splitext on a name without directory separators: the extension
\* starts at the last dot unless only dots precede it.
splitext(p) ==
    LET dots == {i \in 1..Len(p) : p[i] = "."}
        dotIndex == IF dots = {} THEN 0
                    ELSE CHOOSE i \in dots : \A j \in dots : j <= i
    IN  IF dotIndex > 0 /\ \E j \in 1..(dotIndex - 1) : p[j] # "."
        THEN <<SubSeq(p, 1, dotIndex - 1), SubSeq(p, dotIndex, Len(p))>>
        ELSE <<p, <<>> >>

DigitOf(d) ==
    CASE d = 0 -> "0" [] d = 1 -> "1" [] d = 2 -> "2" [] d = 3 -> "3"
      [] d = 4 -> "4" [] d = 5 -> "5" [] d = 6 -> "6" [] d = 7 -> "7"
      [] d = 8 -> "8" [] d = 9 -> "9"

RECURSIVE Decimal(_)
\* the decimal digits of a natural number, str(n)
Decimal(n) == IF n < 10 THEN <<DigitOf(n)>>
              ELSE Append(Decimal(n \div 10), DigitOf(n % 10))

\* f'{number:02d}': zero padded to a width of at least two, never truncated
Format02d(number) ==
    LET d == Decimal(number)
    IN  IF Len(d) < 2 THEN <<"0">> \o d ELSE d

(***************************************************************************)
(* make_iso_compliant, pack.py:12-38                                       *)
(***************************************************************************)
\* pack.py:17-23, every character outside VALID_ISO_CHARS becomes '_'
Sanitize(file) ==
    [i \in 1..Len(file) |-> IF file[i] \in VALID_ISO_CHARS THEN file[i] ELSE "_"]

NeedsNumberingLengthOnly(name, file) == Len(name) > 8

NeedsNumberingOffByOne(name, file) == Len(name) >= 8 \/ name # file

\* pack.py:25, file is the upper-cased base
NeedsNumbering(name, file) == Len(name) > 8 \/ name # file

NextNumberNoAdvance(numbering, prefix) ==
    IF prefix \in DOMAIN numbering
    THEN [number |-> numbering[prefix], numbering |-> numbering]
    ELSE [number |-> 1,
          numbering |-> [p \in DOMAIN numbering \cup {prefix} |->
                            IF p = prefix THEN 2 ELSE numbering[p]]]

\* pack.py:27-32, the number handed out and the updated ISO_NUMBERING
NextNumber(numbering, prefix) ==
    IF prefix \in DOMAIN numbering
    THEN [number |-> numbering[prefix],
          numbering |-> [numbering EXCEPT ![prefix] = @ + 1]]
    ELSE [number |-> 1,
          numbering |-> [p \in DOMAIN numbering \cup {prefix} |->
                            IF p = prefix THEN 2 ELSE numbering[p]]]

\* pack.py:35-36
CheckExt(ext) ==
    IF Len(ext) > 4 \/ \E i \in 2..Len(ext) : ext[i] \notin VALID_ISO_CHARS
    THEN <<".">> ELSE ext

\* pack.py:12-38.  The result of one call: the returned name, the new value
\* of ISO_NUMBERING, and (for the record of calls) whether the base was
\* numbered, under which prefix and with which number.
make_iso_compliant(f, numbering) ==
    LET parts == splitext(f)
        file  == Upper(parts[1])
        ext   == Upper(parts[2])
        name  == Sanitize(file)
    IN  IF NeedsNumbering(name, file)
        THEN LET prefix == Take(name, 6)
                 nn     == NextNumber(numbering, prefix)
             IN  [result    |-> prefix \o Format02d(nn.number) \o CheckExt(ext),
                  base      |-> prefix \o Format02d(nn.number),
                  numbering |-> nn.numbering,
                  numbered  |-> TRUE,
                  prefix    |-> prefix,
                  number    |-> nn.number]
        ELSE [result    |-> name \o CheckExt(ext),
              base      |-> name,
              numbering |-> numbering,
              numbered  |-> FALSE,
              prefix    |-> <<>>,
              number    |-> 0]

(***************************************************************************)
(* File names handed to make_iso_compliant: the files the packaging stages *)
(* (pack.py:119, limine.py:13-23) and names that exercise each branch.     *)
(***************************************************************************)
F_kernel == <<"k", "e", "r", "n", "e", "l">>
F_kernel_elf == <<"k", "e", "r", "n", "e", "l", ".", "e", "l", "f">>
F_KERNEL_ELF == <<"K", "E", "R", "N", "E", "L", ".", "E", "L", "F">>
F_limine_bios_cd == <<"l", "i", "m", "i", "n", "e", "-", "b", "i", "o", "s", "-", "c", "d", ".", "b", "i", "n">>
F_limine_uefi_cd == <<"l", "i", "m", "i", "n", "e", "-", "u", "e", "f", "i", "-", "c", "d", ".", "b", "i", "n">>
F_limine_bios_sys == <<"l", "i", "m", "i", "n", "e", "-", "b", "i", "o", "s", ".", "s", "y", "s">>
F_limine_cfg == <<"l", "i", "m", "i", "n", "e", ".", "c", "f", "g">>
F_BOOTX64 == <<"B", "O", "O", "T", "X", "6", "4", ".", "E", "F", "I">>
F_BOOTAA64 == <<"B", "O", "O", "T", "A", "A", "6", "4", ".", "E", "F", "I">>
F_BOOTRISCV64 == <<"B", "O", "O", "T", "R", "I", "S", "C", "V", "6", "4", ".", "E", "F", "I">>
F_longfilename == <<"l", "o", "n", "g", "f", "i", "l", "e", "n", "a", "m", "e", ".", "b", "i", "n">>
F_LONGFI01 == <<"L", "O", "N", "G", "F", "I", "0", "1", ".", "B", "I", "N">>
F_LIMINE01 == <<"L", "I", "M", "I", "N", "E", "0", "1", ".", "B", "I", "N">>
F_app_config == <<"a", "p", "p", ".", "c", "o", "n", "f", "i", "g">>
F_app_dot == <<"a", "p", "p", ".">>
F_a_b == <<"a", "-", "b", ".", "x">>
F_bashrc == <<".", "b", "a", "s", "h", "r", "c">>
F_a_b_c == <<"a", ".", "b", ".", "c">>
F_x_bad == <<"x", ".", "a", "-", "b">>

FileNames ==
    {F_kernel, F_kernel_elf, F_KERNEL_ELF, F_limine_bios_cd, F_limine_uefi_cd,
     F_limine_bios_sys, F_limine_cfg, F_BOOTX64, F_BOOTAA64, F_BOOTRISCV64,
     F_longfilename, F_LONGFI01, F_LIMINE01, F_app_config, F_app_dot, F_a_b,
     F_bashrc, F_a_b_c, F_x_bad}

\* the names of the long-run specification: two share the prefix LIMINE
LongRunNames == {F_limine_bios_cd, F_limine_uefi_cd, F_kernel_elf}

(***************************************************************************)
(* The file system.  A path is a sequence of names, a name a sequence of   *)
(* characters; os.path.join concatenates.  files maps the path of every    *)
(* existing file to its modification time, dirs holds the existing         *)
(* directories below the working directory.                                *)
(***************************************************************************)
D_disk == <<"d", "i", "s", "k">>
D_system == <<"s", "y", "s", "t", "e", "m">>
D_limine == <<"l", "i", "m", "i", "n", "e">>
D_EFI == <<"E", "F", "I">>
D_BOOT == <<"B", "O", "O", "T">>
D_deps == <<"d", "e", "p", "s">>
D_bootloader == <<"b", "o", "o", "t", "l", "o", "a", "d", "e", "r">>
D_target == <<"t", "a", "r", "g", "e", "t">>
D_debug == <<"d", "e", "b", "u", "g">>
D_release == <<"r", "e", "l", "e", "a", "s", "e">>
D_x86_64_unknown_none == <<"x", "8", "6", "_", "6", "4", "-", "u", "n", "k", "n", "o", "w", "n", "-", "n", "o", "n", "e">>
F_microdragon_limine == <<"m", "i", "c", "r", "o", "d", "r", "a", "g", "o", "n", "-", "l", "i", "m", "i", "n", "e">>
F_old_bin == <<"o", "l", "d", ".", "b", "i", "n">>

\* os.path.exists
exists(fs, path) == path \in DOMAIN fs.files \/ path \in fs.dirs

\* the path and the directories above it
Prefixes(path) == {SubSeq(path, 1, k) : k \in 1..Len(path)}

\* the directory a path lies in; <<>> is the working directory
Parent(path) == SubSeq(path, 1, Len(path) - 1)

DirExists(fs, path) == path = <<>> \/ path \in fs.dirs

\* path is root or lies below it
Under(path, root) ==
    Len(path) >= Len(root) /\ SubSeq(path, 1, Len(root)) = root

\* os.makedirs
makedirs(fs, path) == [fs EXCEPT !.dirs = @ \cup Prefixes(path)]

\* os.mkdir, which raises when the parent directory is missing
mkdir(fs, path) ==
    IF DirExists(fs, Parent(path)) /\ ~exists(fs, path)
    THEN [ok |-> TRUE, fs |-> [fs EXCEPT !.dirs = @ \cup {path}]]
    ELSE [ok |-> FALSE, fs |-> fs]

rmtreeShallow(fs, root) ==
    LET keep == {q \in DOMAIN fs.files : Parent(q) # root}
    IN  [files |-> [q \in keep |-> fs.files[q]], dirs |-> fs.dirs]

\* shutil.rmtree
rmtree(fs, root) ==
    LET keep == {q \in DOMAIN fs.files : ~Under(q, root)}
    IN  [files |-> [q \in keep |-> fs.files[q]],
         dirs  |-> {d \in fs.dirs : ~Under(d, root)}]

\* shutil.copyfile(src, dst) at time now: raises when src is missing or the
\* directory of dst is missing; the written file is stamped with the time
\* of the copy
copyfile(fs, src, dst, now_) ==
    IF src \in DOMAIN fs.files /\ DirExists(fs, Parent(dst)) /\ dst \notin fs.dirs
    THEN [ok |-> TRUE,
          fs |-> [fs EXCEPT !.files =
                     [q \in DOMAIN fs.files \cup {dst} |->
                         IF q = dst THEN now_ ELSE fs.files[q]]]]
    ELSE [ok |-> FALSE, fs |-> fs]

\* bootloader.py:18-20
ensure_directory(fs, path) == IF ~exists(fs, path) THEN makedirs(fs, path) ELSE fs

test_or_copySwapped(fs, target, copy, now_) ==
    IF ~exists(fs, target)
    THEN LET c == copyfile(fs, copy, target, now_)
         IN  [ok |-> c.ok, fs |-> c.fs, copied |-> c.ok]
    ELSE IF copy \notin DOMAIN fs.files
    THEN [ok |-> FALSE, fs |-> fs, copied |-> FALSE]
    ELSE IF fs.files[target] > fs.files[copy]
    THEN LET c == copyfile(fs, copy, target, now_)
         IN  [ok |-> c.ok, fs |-> c.fs, copied |-> c.ok]
    ELSE [ok |-> TRUE, fs |-> fs, copied |-> FALSE]

test_or_copyNotStrict(fs, target, copy, now_) ==
    IF ~exists(fs, target)
    THEN LET c == copyfile(fs, copy, target, now_)
         IN  [ok |-> c.ok, fs |-> c.fs, copied |-> c.ok]
    ELSE IF copy \notin DOMAIN fs.files
    THEN [ok |-> FALSE, fs |-> fs, copied |-> FALSE]
    ELSE IF fs.files[copy] >= fs.files[target]
    THEN LET c == copyfile(fs, copy, target, now_)
         IN  [ok |-> c.ok, fs |-> c.fs, copied |-> c.ok]
    ELSE [ok |-> TRUE, fs |-> fs, copied |-> FALSE]

\* bootloader.py:22-25; os.path.getmtime raises when the source is missing
test_or_copy(fs, target, copy, now_) ==
    IF ~exists(fs, target)
    THEN LET c == copyfile(fs, copy, target, now_)
         IN  [ok |-> c.ok, fs |-> c.fs, copied |-> c.ok]
    ELSE IF copy \notin DOMAIN fs.files
    THEN [ok |-> FALSE, fs |-> fs, copied |-> FALSE]
    ELSE IF fs.files[copy] > fs.files[target]
    THEN LET c == copyfile(fs, copy, target, now_)
         IN  [ok |-> c.ok, fs |-> c.fs, copied |-> c.ok]
    ELSE [ok |-> TRUE, fs |-> fs, copied |-> FALSE]

\* limine.py:10 and limine.py:18
LimineTarget == <<D_disk, D_limine>>
LimineEfi == <<D_disk, D_EFI, D_BOOT>>
LimineDeps == <<D_deps, D_limine>>

\* limine.py:13-16, the pairs (target, copy) staged below disk/limine
LiminePairs ==
    << [target |-> LimineTarget \o <<F_limine_uefi_cd>>,
        copy   |-> LimineDeps \o <<F_limine_uefi_cd>>],
       [target |-> LimineTarget \o <<F_limine_bios_cd>>,
        copy   |-> LimineDeps \o <<F_limine_bios_cd>>],
       [target |-> LimineTarget \o <<F_limine_bios_sys>>,
        copy   |-> LimineDeps \o <<F_limine_bios_sys>>],
       [target |-> LimineTarget \o <<F_limine_cfg>>,
        copy   |-> <<D_bootloader, D_limine, F_limine_cfg>>] >>

\* limine.py:21-23, the pairs staged below disk/EFI/BOOT
EfiPairs ==
    << [target |-> LimineEfi \o <<F_BOOTAA64>>,
        copy   |-> LimineDeps \o <<F_BOOTAA64>>],
       [target |-> LimineEfi \o <<F_BOOTRISCV64>>,
        copy   |-> LimineDeps \o <<F_BOOTRISCV64>>],
       [target |-> LimineEfi \o <<F_BOOTX64>>,
        copy   |-> LimineDeps \o <<F_BOOTX64>>] >>

RECURSIVE CopyAll(_, _, _, _)
\* the test_or_copy calls of copy_files from pair i on; an exception ends
\* the sequence.  copied collects the targets written.
CopyAll(st, pairs, i, now_) ==
    IF ~st.ok \/ i > Len(pairs) THEN st
    ELSE LET r == test_or_copy(st.fs, pairs[i].target, pairs[i].copy, now_)
         IN  CopyAll([ok |-> r.ok, fs |-> r.fs,
                      copied |-> IF r.copied THEN st.copied \cup {pairs[i].target}
                                 ELSE st.copied],
                     pairs, i + 1, now_)

\* limine.py:9-23, LimineBootloader.copy_files
copy_files(fs, now_) ==
    LET s1 == CopyAll([ok |-> TRUE, fs |-> ensure_directory(fs, LimineTarget),
                       copied |-> {}], LiminePairs, 1, now_)
    IN  IF ~s1.ok THEN s1
        ELSE CopyAll([ok |-> TRUE, fs |-> ensure_directory(s1.fs, LimineEfi),
                      copied |-> s1.copied], EfiPairs, 1, now_)

AllPairs == LiminePairs \o EfiPairs

PairSet == {AllPairs[i] : i \in 1..Len(AllPairs)}

\* pack.py:109
SystemDir == <<D_disk, D_system>>

\* pack.py:119, the staged kernel
KernelTarget == SystemDir \o <<F_kernel>>

\* pack.py:113-119 with build.py:22, the build artifact that is copied
KernelArtifact(release) ==
    <<D_target, D_x86_64_unknown_none, IF release THEN D_release ELSE D_debug,
      F_microdragon_limine>>

(***************************************************************************)
(* The image assembly, pack.py:69-95 and limine.py:25-32.  The image is    *)
(* [records, log, eltorito, written]: the directory and file records, the  *)
(* kinds of the calls made on the image in call order, the boot catalog    *)
(* entries in the order they were registered, and whether the image was    *)
(* written to the output.                                                  *)
(***************************************************************************)
P_disk == <<D_disk>>

\* pack.py:70-71
NewIso == [records |-> {}, log |-> <<>>, eltorito |-> <<>>, written |-> FALSE]

SubDirs(fs, root) == {d \in fs.dirs : Len(d) > 0 /\ Parent(d) = root}

FilesIn(fs, root) == {f \in DOMAIN fs.files : Parent(f) = root}

RECURSIVE Perms(_)
\* the orders in which a directory listing can enumerate the set S
Perms(S) ==
    IF S = {} THEN {<<>>}
    ELSE UNION {{<<x>> \o q : q \in Perms(S \ {x})} : x \in S}

Last(q) == q[Len(q)]

\* pack.py:74-81, the upper-cased path of root below 'disk'
IsoDiskRoot(root) == [i \in 1..(Len(root) - 1) |-> Upper(root[i + 1])]

\* the Rock Ridge path of a staged path: its names below 'disk'
RRPath(path) == SubSeq(path, 2, Len(path))

\* what precedes the last dot of an ISO9660 file name, and what follows it
IsoNameSplit(name) ==
    LET dots == {i \in 1..Len(name) : name[i] = "."}
        dot  == IF dots = {} THEN 0 ELSE CHOOSE i \in dots : \A j \in dots : j <= i
    IN  IF dot = 0 THEN <<name, <<>> >>
        ELSE <<SubSeq(name, 1, dot - 1), SubSeq(name, dot + 1, Len(name))>>

\* the interchange level 1 check the image library applies to the file name
\* of add_file (pack.py:90)
IsoFileNameOk(name) ==
    LET parts == IsoNameSplit(name)
    IN  /\ Len(parts[1]) + Len(parts[2]) > 0
        /\ Len(parts[1]) <= 8 /\ Len(parts[2]) <= 3
        /\ \A i \in 1..Len(parts[1]) : parts[1][i] \in VALID_ISO_CHARS
        /\ \A i \in 1..Len(parts[2]) : parts[2][i] \in VALID_ISO_CHARS

\* the interchange level 1 check the image library applies to the directory
\* name of add_directory (pack.py:85)
IsoDirNameOk(name) ==
    /\ Len(name) \in 1..8
    /\ \A i \in 1..Len(name) : name[i] \in VALID_ISO_CHARS

\* pack.py:83-85, iso.add_directory for the directory at path; the library
\* raises on an invalid or duplicate name
add_directory(st, path) ==
    LET name     == Upper(Last(path))
        iso_path == IsoDiskRoot(Parent(path)) \o <<name>>
    IN  IF ~IsoDirNameOk(name) \/ \E r \in st.iso.records : r.iso_path = iso_path
        THEN [st EXCEPT !.ok = FALSE]
        ELSE [st EXCEPT
                !.iso.records = @ \cup {[kind |-> "dir", iso_path |-> iso_path,
                                         rr_path |-> RRPath(path),
                                         file_ident |-> name]},
                !.iso.log = Append(@, "add_directory")]

\* pack.py:87-90, make_iso_compliant and iso.add_file for the file at path;
\* the library raises on an invalid or duplicate name
add_file(st, path) ==
    LET r        == make_iso_compliant(Last(path), st.numbering)
        ident    == r.result \o <<";", "1">>
        iso_path == IsoDiskRoot(Parent(path)) \o <<ident>>
        st1      == [st EXCEPT !.numbering = r.numbering]
    IN  IF ~IsoFileNameOk(r.result) \/ \E q \in st.iso.records : q.iso_path = iso_path
        THEN [st1 EXCEPT !.ok = FALSE]
        ELSE [st1 EXCEPT
                !.iso.records = @ \cup {[kind |-> "file", iso_path |-> iso_path,
                                         rr_path |-> RRPath(path),
                                         file_ident |-> ident]},
                !.iso.log = Append(@, "add_file")]

RECURSIVE AddAll(_, _, _)
\* the additions of one directory listing, ended by the first exception
AddAll(st, paths, i) ==
    IF ~st.ok \/ i > Len(paths) THEN st
    ELSE AddAll(IF paths[i] \in st.fs.dirs THEN add_directory(st, paths[i])
                ELSE add_file(st, paths[i]),
                paths, i + 1)

walk_stepFilesFirst(fs, iso, numbering, ds, fl) ==
    AddAll([ok |-> TRUE, fs |-> fs, iso |-> iso, numbering |-> numbering],
           fl \o ds, 1)

\* pack.py:73-90, one iteration of the os.walk loop: the directories of
\* root are added in the order ds, then its files in the order fl
walk_step(fs, iso, numbering, ds, fl) ==
    AddAll([ok |-> TRUE, fs |-> fs, iso |-> iso, numbering |-> numbering],
           ds \o fl, 1)

\* iso.get_record(rr_path=...): the records with that Rock Ridge path
get_record(iso, rr_path) == {r \in iso.records : r.rr_path = rr_path}

\* limine.py:28 and limine.py:32, iso.add_eltorito on '/LIMINE/' + file_ident;
\* the library raises when no file record has that path
add_eltorito(st, file_ident, boot_info_table, efi) ==
    LET bootfile == <<Upper(D_limine), file_ident>>
    IN  IF ~\E r \in st.iso.records : r.kind = "file" /\ r.iso_path = bootfile
        THEN [st EXCEPT !.ok = FALSE]
        ELSE [st EXCEPT
                !.iso.eltorito = Append(@, [bootfile |-> bootfile,
                                            media_name |-> "noemul",
                                            boot_load_size |-> 4,
                                            boot_info_table |-> boot_info_table,
                                            efi |-> efi]),
                !.iso.log = Append(@, "add_eltorito")]

make_bootableFixedNames(iso) ==
    LET st0 == [ok |-> TRUE, iso |-> iso]
        st1 == add_eltorito(st0, F_LIMINE01 \o <<";", "1">>, TRUE, FALSE)
    IN  IF ~st1.ok THEN st1
        ELSE add_eltorito(st1, <<"L", "I", "M", "I", "N", "E", "0", "2", ".",
                                 "B", "I", "N", ";", "1">>, TRUE, TRUE)

make_bootableSkipMissing(iso) ==
    LET st0  == [ok |-> TRUE, iso |-> iso]
        bios == get_record(iso, <<D_limine, F_limine_bios_cd>>)
        uefi == get_record(iso, <<D_limine, F_limine_uefi_cd>>)
        st1  == IF bios = {} THEN st0
                ELSE add_eltorito(st0, (CHOOSE r \in bios : TRUE).file_ident,
                                  TRUE, FALSE)
    IN  IF ~st1.ok \/ uefi = {} THEN st1
        ELSE add_eltorito(st1, (CHOOSE r \in uefi : TRUE).file_ident, TRUE, TRUE)

make_bootableUefiFirst(iso) ==
    LET st0  == [ok |-> TRUE, iso |-> iso]
        bios == get_record(iso, <<D_limine, F_limine_bios_cd>>)
        uefi == get_record(iso, <<D_limine, F_limine_uefi_cd>>)
    IN  IF uefi = {} THEN [st0 EXCEPT !.ok = FALSE]
        ELSE LET st1 == add_eltorito(st0, (CHOOSE r \in uefi : TRUE).file_ident,
                                     TRUE, TRUE)
             IN  IF ~st1.ok \/ bios = {} THEN [st1 EXCEPT !.ok = FALSE]
                 ELSE add_eltorito(st1, (CHOOSE r \in bios : TRUE).file_ident,
                                   TRUE, FALSE)

\* limine.py:25-32, LimineBootloader.make_bootable
make_bootable(iso) ==
    LET st0  == [ok |-> TRUE, iso |-> iso]
        bios == get_record(iso, <<D_limine, F_limine_bios_cd>>)
        uefi == get_record(iso, <<D_limine, F_limine_uefi_cd>>)
    IN  IF bios = {} THEN [st0 EXCEPT !.ok = FALSE]
        ELSE LET st1 == add_eltorito(st0, (CHOOSE r \in bios : TRUE).file_ident,
                                     TRUE, FALSE)
             IN  IF ~st1.ok \/ uefi = {} THEN [st1 EXCEPT !.ok = FALSE]
                 ELSE add_eltorito(st1, (CHOOSE r \in uefi : TRUE).file_ident,
                                   TRUE, TRUE)

(***************************************************************************)
(* The registries, task.py:24-63 and bootloader/bootloader.py:27-50.       *)
(***************************************************************************)
None == "None"

\* the value None where an object or a registry instance is expected
NoObject == [id |-> 0, class |-> None]
NoInstance == [exists |-> FALSE]

EmptyMap == [p \in {} |-> 0]

\* d[k] = v on a dict
Put(d, k, v) == [x \in DOMAIN d \cup {k} |-> IF x = k THEN v ELSE d[x]]

\* the classes handed to TaskRegistry.register: the two tasks of the
\* repository (build.py:16, pack.py:41) and a class that is no Task
TaskClasses == {"BuildTask", "PackagingTask"}
AnyClasses == TaskClasses \cup {"object"}
TaskNames == {"build", "pack"}

\* the bootloaders handed to BootloaderRegistry.register: an instance of
\* LimineBootloader (limine.py:5) or an object that is no Bootloader
BootloaderClasses == {"LimineBootloader"}
AnyLoaderClasses == BootloaderClasses \cup {"object"}
\* build.py:32, the names --bootloader accepts
BootloaderNames == {"Limine", "Rust"}

TaskRegistry_newReset(INSTANCE_) == [exists |-> TRUE, tasks |-> EmptyMap]

\* task.py:28-32, the value of TaskRegistry.INSTANCE after TaskRegistry()
TaskRegistry_new(INSTANCE_) ==
    IF ~INSTANCE_.exists THEN [exists |-> TRUE, tasks |-> EmptyMap] ELSE INSTANCE_

\* bootloader.py:31-35
BootloaderRegistry_new(INSTANCE_) ==
    IF ~INSTANCE_.exists THEN [exists |-> TRUE, bootloaders |-> EmptyMap]
    ELSE INSTANCE_

TaskRegistry_registerOverwrite(self, name, task) ==
    IF task \notin TaskClasses
    THEN [outcome |-> "TypeError", self |-> self]
    ELSE [outcome |-> "ok", self |-> [self EXCEPT !.tasks = Put(@, name, task)]]

\* task.py:34-41
TaskRegistry_register(self, name, task) ==
    IF name \in DOMAIN self.tasks
    THEN [outcome |-> "RuntimeError", self |-> self]
    ELSE IF task \notin TaskClasses
    THEN [outcome |-> "TypeError", self |-> self]
    ELSE [outcome |-> "ok", self |-> [self EXCEPT !.tasks = Put(@, name, task)]]

\* bootloader.py:37-44, loader is an object [id, class]
BootloaderRegistry_register(self, name, loader) ==
    IF name \in DOMAIN self.bootloaders
    THEN [outcome |-> "RuntimeError", self |-> self]
    ELSE IF loader.class \notin BootloaderClasses
    THEN [outcome |-> "TypeError", self |-> self]
    ELSE [outcome |-> "ok",
          self |-> [self EXCEPT !.bootloaders = Put(@, name, loader)]]

\* bootloader.py:46-50, the stored object is returned
get_bootloader(self, name) ==
    IF name \notin DOMAIN self.bootloaders
    THEN [outcome |-> "RuntimeError", value |-> NoObject]
    ELSE [outcome |-> "ok", value |-> self.bootloaders[name]]

\* build.py:21-24 and pack.py:45-48: the constructor of a task class looks
\* up the bootloader 'Limine' through BootloaderRegistry()
TaskInit(class, id, bootInstance) ==
    LET reg == BootloaderRegistry_new(bootInstance)
        got == get_bootloader(reg, "Limine")
    IN  IF got.outcome # "ok"
        THEN [outcome |-> got.outcome, value |-> NoObject, bootInstance |-> reg]
        ELSE [outcome |-> "ok",
              value |-> [id |-> id, class |-> class, bootloader |-> got.value,
                         target |-> "x86_64-unknown-none", release |-> FALSE],
              bootInstance |-> reg]

\* task.py:53-57
create_task(self, name, id, bootInstance) ==
    IF name \notin DOMAIN self.tasks
    THEN [outcome |-> "RuntimeError", value |-> NoObject,
          bootInstance |-> bootInstance]
    ELSE TaskInit(self.tasks[name], id, bootInstance)

(***************************************************************************)
(* State.                                                                  *)
(***************************************************************************)
VARIABLES
    ISO_NUMBERING,  \* pack.py:10, prefix -> next sequence number
    calls,          \* the make_iso_compliant calls of the run, in call order
    TaskRegistryINSTANCE,        \* task.py:25, TaskRegistry.INSTANCE
    BootloaderRegistryINSTANCE,  \* bootloader.py:28, BootloaderRegistry.INSTANCE
    nextId,         \* identity of the next object created
    lastCall,       \* the last registry call, what it returned or raised, and
                    \* how many objects existed when it was made
    firstBound,     \* per registry, the entry of the first successful register of a name
    fs,             \* the file system: [files, dirs]
    now,            \* the clock that stamps modification times
    envLeft,        \* changes from outside the program still allowed
    lastOp,         \* the last staging operation and what it did
    prevOp,         \* the staging operation before lastOp
    pc,             \* where the pack command stands
    task,           \* the PackagingTask: its arguments and what it found on disk
    started,        \* the pipeline stages begun in this run, in order
    failed,         \* the pipeline stages that failed in this run
    exitStatus,     \* the exit status of the process, NoExit while it runs
    runs,           \* number of runs of the pack command so far
    iso,            \* the image under construction
    walk,           \* the directories os.walk still has to visit
    prevCalls,      \* the calls of the image assembly before the current one
    args            \* main.py:5, the parsed command line

isoVars == <<ISO_NUMBERING, calls, prevCalls>>

regVars == <<TaskRegistryINSTANCE, BootloaderRegistryINSTANCE, nextId, lastCall,
             firstBound, args>>

fsVars == <<fs, now, envLeft, lastOp, prevOp>>

packVars == <<pc, task, started, failed, exitStatus, runs, iso, walk>>

vars == <<ISO_NUMBERING, calls, TaskRegistryINSTANCE, BootloaderRegistryINSTANCE,
          nextId, lastCall, firstBound, fs, now, envLeft, lastOp, prevOp,
          pc, task, started, failed, exitStatus, runs, iso, walk, prevCalls,
          args>>

(***************************************************************************)
(* make_iso_compliant during the walk of the disk tree.                    *)
(***************************************************************************)
IsoInit ==
    /\ ISO_NUMBERING = EmptyMap
    /\ calls = <<>>
    /\ prevCalls = <<>>

CallRecord(f, r, before) ==
    [file |-> f, result |-> r.result, base |-> r.base, numbered |-> r.numbered,
     prefix |-> r.prefix, number |-> r.number,
     before |-> before, after |-> r.numbering]

\* pack.py:88, one call of make_iso_compliant during the walk of the disk tree
MakeIsoCompliant(f) ==
    /\ Len(calls) < MaxCalls
    /\ LET r == make_iso_compliant(f, ISO_NUMBERING)
       IN  /\ ISO_NUMBERING' = r.numbering
           /\ calls' = Append(calls, CallRecord(f, r, ISO_NUMBERING))
    /\ UNCHANGED prevCalls
    /\ UNCHANGED <<regVars, fsVars, packVars>>

\* pack.py:69-71, _package_disk_dir is entered a second time in the same
\* process: the image is new, the module global ISO_NUMBERING is not touched
PackageAgain ==
    /\ calls # <<>>
    /\ prevCalls = <<>>
    /\ prevCalls' = calls
    /\ calls' = <<>>
    /\ UNCHANGED ISO_NUMBERING
    /\ UNCHANGED <<regVars, fsVars, packVars>>

\* pack.py:88 in a long packaging run: only the last call is recorded
MakeIsoCompliantLong(f) ==
    /\ \A p \in DOMAIN ISO_NUMBERING : ISO_NUMBERING[p] < MaxUses
    /\ LET r == make_iso_compliant(f, ISO_NUMBERING)
       IN  /\ ISO_NUMBERING' = r.numbering
           /\ calls' = <<CallRecord(f, r, ISO_NUMBERING)>>
    /\ UNCHANGED prevCalls
    /\ UNCHANGED <<regVars, fsVars, packVars>>

(***************************************************************************)
(* Calls on the registries.                                                *)
(***************************************************************************)
\* build.py:30, the values --target accepts
Targets == {"x86_64", "riscv", "aarch64"}

\* the command line has not been parsed
NoArgs == [action |-> None, target |-> None, bootloader |-> None,
           release |-> FALSE, force |-> FALSE]

\* task.py:43-51 with build.py:26-34 and pack.py:50-57, the command lines the
\* parser accepts; --force exists for 'pack' only
ArgSets ==
    {a \in [action : TaskNames, target : Targets, bootloader : BootloaderNames,
            release : BOOLEAN, force : BOOLEAN] :
        a.action = "build" => ~a.force}

RegInit ==
    /\ TaskRegistryINSTANCE = NoInstance
    /\ BootloaderRegistryINSTANCE = NoInstance
    /\ nextId = 1
    /\ lastCall = [registry |-> None, op |-> None, name |-> None,
                   entry |-> NoObject, outcome |-> None, value |-> NoObject,
                   known |-> {}, before |-> EmptyMap, after |-> EmptyMap,
                   objectsBefore |-> 0]
    /\ firstBound = [tasks |-> EmptyMap, bootloaders |-> EmptyMap]
    /\ args = NoArgs

\* the dicts of the two registries; empty before the first construction
Tasks == IF ~TaskRegistryINSTANCE.exists THEN EmptyMap
         ELSE TaskRegistryINSTANCE.tasks

Bootloaders == IF ~BootloaderRegistryINSTANCE.exists THEN EmptyMap
               ELSE BootloaderRegistryINSTANCE.bootloaders

\* the entry of the first successful register of each name
NoteFirst(first, name, outcome, entry) ==
    IF outcome = "ok" /\ name \notin DOMAIN first THEN Put(first, name, entry)
    ELSE first

\* build.py:2 and pack.py:3: the module of a task class imports the
\* bootloader package before the class is registered, and the package
\* registers 'Limine' when it is loaded (limine.py:34)
ImportOrder(ty) == ty \in TaskClasses => "Limine" \in DOMAIN Bootloaders

\* task.py:59-63, TaskRegistry().register(name, ty)
RegisterTask(name, ty) ==
    /\ ImportOrder(ty)
    /\ LET reg == TaskRegistry_new(TaskRegistryINSTANCE)
           r   == TaskRegistry_register(reg, name, ty)
       IN  /\ TaskRegistryINSTANCE' = r.self
           /\ lastCall' = [registry |-> "tasks", op |-> "register", name |-> name,
                           entry |-> [id |-> 0, class |-> ty],
                           outcome |-> r.outcome, value |-> NoObject,
                           known |-> DOMAIN firstBound.tasks,
                           before |-> reg.tasks, after |-> r.self.tasks,
                           objectsBefore |-> nextId - 1]
           /\ firstBound' = [firstBound EXCEPT
                               !.tasks = NoteFirst(@, name, r.outcome, ty)]
    /\ UNCHANGED <<BootloaderRegistryINSTANCE, nextId, args>>
    /\ UNCHANGED <<isoVars, fsVars, packVars>>

\* limine.py:34, BootloaderRegistry().register(name, <a new object>)
RegisterBootloader(name, class) ==
    /\ nextId <= MaxObjects
    /\ LET reg    == BootloaderRegistry_new(BootloaderRegistryINSTANCE)
           loader == [id |-> nextId, class |-> class]
           r      == BootloaderRegistry_register(reg, name, loader)
       IN  /\ BootloaderRegistryINSTANCE' = r.self
           /\ lastCall' = [registry |-> "bootloaders", op |-> "register",
                           name |-> name, entry |-> loader,
                           outcome |-> r.outcome, value |-> NoObject,
                           known |-> DOMAIN firstBound.bootloaders,
                           before |-> reg.bootloaders,
                           after |-> r.self.bootloaders,
                           objectsBefore |-> nextId - 1]
           /\ firstBound' = [firstBound EXCEPT
                               !.bootloaders = NoteFirst(@, name, r.outcome, loader)]
    /\ nextId' = nextId + 1
    /\ UNCHANGED <<TaskRegistryINSTANCE, args>>
    /\ UNCHANGED <<isoVars, fsVars, packVars>>

\* main.py:7, TaskRegistry().create_task(name)
CreateTask(name) ==
    /\ nextId <= MaxObjects
    /\ LET reg == TaskRegistry_new(TaskRegistryINSTANCE)
           r   == create_task(reg, name, nextId, BootloaderRegistryINSTANCE)
       IN  /\ TaskRegistryINSTANCE' = reg
           /\ BootloaderRegistryINSTANCE' = r.bootInstance
           /\ nextId' = IF r.outcome = "ok" THEN nextId + 1 ELSE nextId
           /\ lastCall' = [registry |-> "tasks", op |-> "create", name |-> name,
                           entry |-> NoObject, outcome |-> r.outcome,
                           value |-> r.value,
                           known |-> DOMAIN firstBound.tasks,
                           before |-> reg.tasks, after |-> reg.tasks,
                           objectsBefore |-> nextId - 1]
    /\ UNCHANGED <<firstBound, args>>
    /\ UNCHANGED <<isoVars, fsVars, packVars>>

\* build.py:38, BootloaderRegistry().get_bootloader(name)
GetBootloader(name) ==
    /\ LET reg == BootloaderRegistry_new(BootloaderRegistryINSTANCE)
           r   == get_bootloader(reg, name)
       IN  /\ BootloaderRegistryINSTANCE' = reg
           /\ lastCall' = [registry |-> "bootloaders", op |-> "create",
                           name |-> name, entry |-> NoObject, outcome |-> r.outcome,
                           value |-> r.value,
                           known |-> DOMAIN firstBound.bootloaders,
                           before |-> reg.bootloaders, after |-> reg.bootloaders,
                           objectsBefore |-> nextId - 1]
    /\ UNCHANGED <<TaskRegistryINSTANCE, nextId, firstBound, args>>
    /\ UNCHANGED <<isoVars, fsVars, packVars>>

(***************************************************************************)
(* Staging operations on the file system.                                  *)
(***************************************************************************)
\* the files copy_files reads: limine.py:13-23
SourceFiles == {AllPairs[i].copy : i \in 1..Len(AllPairs)}

TargetFiles == {AllPairs[i].target : i \in 1..Len(AllPairs)}

\* the pairs on which single calls and outside changes are exercised: one of
\* each directory that copy_files stages
CopyPairs == {LiminePairs[4], EfiPairs[3]}

EnvSources == {pair.copy : pair \in CopyPairs}

EnvFiles == EnvSources \cup {pair.target : pair \in CopyPairs}

NoOp == [op |-> None, target |-> <<>>, copy |-> <<>>, ok |-> TRUE,
         copied |-> {}, before |-> [files |-> EmptyMap, dirs |-> {}]]

\* a checkout in which every source of the bootloader is present and no
\* disk directory has been staged yet
FsInit ==
    /\ fs = [files |-> [q \in SourceFiles |-> 1],
             dirs  |-> UNION {Prefixes(Parent(q)) : q \in SourceFiles}]
    /\ now = 1
    /\ envLeft = MaxEnv
    /\ lastOp = NoOp
    /\ prevOp = NoOp

\* bootloader.py:22-25, one call of test_or_copy
TestOrCopy(pair) ==
    /\ LET r == test_or_copy(fs, pair.target, pair.copy, now)
       IN  /\ fs' = r.fs
           /\ lastOp' = [op |-> "test_or_copy", target |-> pair.target,
                         copy |-> pair.copy, ok |-> r.ok,
                         copied |-> IF r.copied THEN {pair.target} ELSE {},
                         before |-> fs]
    /\ prevOp' = lastOp
    /\ UNCHANGED <<now, envLeft>>
    /\ UNCHANGED <<isoVars, regVars, packVars>>

\* limine.py:9-23, one call of copy_files
CopyFiles ==
    /\ LET r == copy_files(fs, now)
       IN  /\ fs' = r.fs
           /\ lastOp' = [op |-> "copy_files", target |-> <<>>, copy |-> <<>>,
                         ok |-> r.ok, copied |-> r.copied, before |-> fs]
    /\ prevOp' = lastOp
    /\ UNCHANGED <<now, envLeft>>
    /\ UNCHANGED <<isoVars, regVars, packVars>>

\* no process of the pack command is alive, and one may still follow
Idle == pc = "NotStarted" /\ runs < MaxRuns

\* time passes between two operations
Tick ==
    /\ Idle
    /\ now < MaxTime
    /\ now' = now + 1
    /\ UNCHANGED <<fs, envLeft, lastOp, prevOp>>
    /\ UNCHANGED <<isoVars, regVars, packVars>>

EnvOp(name, path) ==
    [op |-> name, target |-> path, copy |-> <<>>, ok |-> TRUE, copied |-> {},
     before |-> fs]

\* a source file is rewritten from outside the program
TouchSource(src) ==
    /\ Idle
    /\ envLeft > 0
    /\ src \in DOMAIN fs.files
    /\ fs' = [fs EXCEPT !.files[src] = now]
    /\ envLeft' = envLeft - 1
    /\ lastOp' = EnvOp("touch", src)
    /\ prevOp' = lastOp
    /\ UNCHANGED now
    /\ UNCHANGED <<isoVars, regVars, packVars>>

\* a file is deleted from outside the program
DeleteFile(path) ==
    /\ Idle
    /\ envLeft > 0
    /\ path \in DOMAIN fs.files
    /\ fs' = [fs EXCEPT !.files = [q \in DOMAIN fs.files \ {path} |-> fs.files[q]]]
    /\ envLeft' = envLeft - 1
    /\ lastOp' = EnvOp("delete", path)
    /\ prevOp' = lastOp
    /\ UNCHANGED now
    /\ UNCHANGED <<isoVars, regVars, packVars>>

(***************************************************************************)
(* The pack command: main.py:3-10 and PackagingTask.run, pack.py:64-67.    *)
(***************************************************************************)
NoExit == -1

\* pack.py:102-119 and limine.py:9-23, the files and directories that the
\* staging writes
StagedFiles == {KernelTarget} \cup TargetFiles

StagedDirs == UNION {Prefixes(Parent(q)) : q \in StagedFiles}

\* the target exists and is not older than the file it is copied from
UpToDate(fs_, target, copy) ==
    /\ target \in DOMAIN fs_.files
    /\ copy \in DOMAIN fs_.files
    /\ fs_.files[target] >= fs_.files[copy]

\* no task has been created; before holds what lay at and below 'disk' when
\* the task was started, as far as the staging does not write it itself.
\* kernelUpToDate and allUpToDate tell whether the staged kernel, and every
\* staged file, was up to date when _copy_kernel was entered; kernelCopied
\* and anyCopied tell what the staging copied since.
NoTask == [force |-> FALSE, release |-> FALSE, before |-> {},
           kernelUpToDate |-> FALSE, allUpToDate |-> FALSE,
           kernelCopied |-> FALSE, anyCopied |-> FALSE]

PackInit ==
    /\ pc = "NotStarted"
    /\ task = NoTask
    /\ started = <<>>
    /\ failed = {}
    /\ exitStatus = NoExit
    /\ runs = 0
    /\ iso = NewIso
    /\ walk = <<>>

\* the values of --release the runs are made with: its default, build.py:34
Releases == {FALSE}

\* files left below 'disk' by something other than the staging
StrayFiles == {P_disk \o <<F_old_bin>>, LimineTarget \o <<F_LIMINE01>>}

\* a file appears below 'disk' from outside the program
WriteStray(path) ==
    /\ Idle
    /\ envLeft > 0
    /\ path \notin DOMAIN fs.files
    /\ fs' = [files |-> [q \in DOMAIN fs.files \cup {path} |->
                            IF q = path THEN now ELSE fs.files[q]],
              dirs  |-> fs.dirs \cup Prefixes(Parent(path))]
    /\ envLeft' = envLeft - 1
    /\ lastOp' = EnvOp("stray", path)
    /\ prevOp' = lastOp
    /\ UNCHANGED now
    /\ UNCHANGED <<isoVars, regVars, packVars>>

\* the run ends with an exception: x.py exits with a nonzero status
Raise(stage) ==
    /\ pc' = "Failed"
    /\ failed' = failed \cup {stage}
    /\ exitStatus' = 1

\* main.py:3-10, a new process runs 'pack' with the given arguments; the
\* module state of pack.py is that of a fresh process
Start(force, release) ==
    /\ Idle
    /\ runs' = runs + 1
    /\ task' = [NoTask EXCEPT
                   !.force = force,
                   !.release = release,
                   !.before = {q \in (DOMAIN fs.files \cup fs.dirs) \
                                        (StagedFiles \cup StagedDirs) :
                                 Under(q, P_disk)}]
    /\ pc' = "Building"
    /\ started' = <<"Building">>
    /\ failed' = {}
    /\ exitStatus' = NoExit
    /\ iso' = NewIso
    /\ walk' = <<>>
    /\ ISO_NUMBERING' = EmptyMap
    /\ calls' = <<>>
    /\ prevCalls' = <<>>
    /\ lastOp' = NoOp
    /\ prevOp' = NoOp
    /\ UNCHANGED <<fs, now, envLeft>>
    /\ UNCHANGED regVars

\* build.py:41-47 with task.py:20-22: cargo is run and its exit status is
\* not looked at.  outcome "ok": cargo wrote the artifact; "failed": cargo
\* exited with a nonzero status; "missing": cargo could not be executed and
\* subprocess.run raised.
Build(outcome) ==
    /\ pc = "Building"
    /\ IF outcome = "missing"
       THEN /\ Raise("Building")
            /\ UNCHANGED <<fs, started>>
       ELSE /\ pc' = "Staging.rmtree"
            /\ started' = Append(started, "Staging")
            /\ failed' = IF outcome = "failed" THEN failed \cup {"Building"}
                         ELSE failed
            /\ fs' = IF outcome = "ok"
                     THEN [files |-> Put(fs.files, KernelArtifact(task.release), now),
                           dirs  |-> fs.dirs \cup
                                     Prefixes(Parent(KernelArtifact(task.release)))]
                     ELSE fs
            /\ UNCHANGED exitStatus
    /\ UNCHANGED <<task, runs, iso, walk, now, envLeft, lastOp, prevOp>>
    /\ UNCHANGED <<isoVars, regVars>>

\* pack.py:98-100
AssembleRmtree ==
    /\ pc = "Staging.rmtree"
    /\ fs' = IF task.force /\ exists(fs, P_disk) THEN rmtree(fs, P_disk) ELSE fs
    /\ pc' = "Staging.mkdir"
    /\ UNCHANGED <<task, started, failed, exitStatus, runs, iso, walk>>
    /\ UNCHANGED <<now, envLeft, lastOp, prevOp>>
    /\ UNCHANGED <<isoVars, regVars>>

\* pack.py:102-103
AssembleMkdir ==
    /\ pc = "Staging.mkdir"
    /\ LET r == IF ~exists(fs, P_disk) THEN mkdir(fs, P_disk)
                ELSE [ok |-> TRUE, fs |-> fs]
       IN  /\ fs' = r.fs
           /\ IF r.ok
              THEN pc' = "Staging.copy_kernel" /\ UNCHANGED <<failed, exitStatus>>
              ELSE Raise("Staging")
    /\ UNCHANGED <<task, started, runs, iso, walk>>
    /\ UNCHANGED <<now, envLeft, lastOp, prevOp>>
    /\ UNCHANGED <<isoVars, regVars>>

\* pack.py:108-119, the kernel is copied whatever the target looks like
copy_kernel(fs_, release, now_) ==
    LET m == IF ~exists(fs_, SystemDir) THEN mkdir(fs_, SystemDir)
             ELSE [ok |-> TRUE, fs |-> fs_]
    IN  IF ~m.ok THEN [ok |-> FALSE, fs |-> m.fs, copied |-> {}]
        ELSE LET c == copyfile(m.fs, KernelArtifact(release), KernelTarget, now_)
             IN  [ok |-> c.ok, fs |-> c.fs,
                  copied |-> IF c.ok THEN {KernelTarget} ELSE {}]

\* pack.py:105
CopyKernel ==
    /\ pc = "Staging.copy_kernel"
    /\ LET r == copy_kernel(fs, task.release, now)
           k == UpToDate(fs, KernelTarget, KernelArtifact(task.release))
       IN  /\ fs' = r.fs
           /\ task' = [task EXCEPT
                          !.kernelUpToDate = k,
                          !.allUpToDate =
                              k /\ \A pair \in PairSet :
                                      UpToDate(fs, pair.target, pair.copy),
                          !.kernelCopied = KernelTarget \in r.copied,
                          !.anyCopied = r.copied # {}]
           /\ IF r.ok
              THEN pc' = "Staging.copy_files" /\ UNCHANGED <<failed, exitStatus>>
              ELSE Raise("Staging")
    /\ UNCHANGED <<started, runs, iso, walk, now, envLeft, lastOp, prevOp>>
    /\ UNCHANGED <<isoVars, regVars>>

\* pack.py:106
BootloaderCopyFiles ==
    /\ pc = "Staging.copy_files"
    /\ LET r == copy_files(fs, now)
       IN  /\ fs' = r.fs
           /\ task' = [task EXCEPT !.anyCopied = @ \/ r.copied # {}]
           /\ IF r.ok
              THEN /\ pc' = "Imaging.walk"
                   /\ started' = Append(started, "Imaging")
                   /\ walk' = <<P_disk>>
                   /\ UNCHANGED <<failed, exitStatus>>
              ELSE /\ Raise("Staging")
                   /\ UNCHANGED <<started, walk>>
    /\ UNCHANGED <<runs, iso, now, envLeft, lastOp, prevOp>>
    /\ UNCHANGED <<isoVars, regVars>>

\* limine.py:27 and limine.py:31, the staged files make_bootable looks up
LoaderFiles == {LimineTarget \o <<F_limine_bios_cd>>,
                LimineTarget \o <<F_limine_uefi_cd>>}

\* a staged loader file is deleted from outside the program after the
\* staging and before os.walk lists the tree, pack.py:73
DeleteStaged(path) ==
    /\ pc = "Imaging.walk"
    /\ walk = <<P_disk>>
    /\ iso = NewIso
    /\ envLeft > 0
    /\ path \in DOMAIN fs.files
    /\ fs' = [fs EXCEPT !.files = [q \in DOMAIN fs.files \ {path} |-> fs.files[q]]]
    /\ envLeft' = envLeft - 1
    /\ UNCHANGED <<now, lastOp, prevOp>>
    /\ UNCHANGED <<isoVars, regVars, packVars>>

\* pack.py:73-90, one iteration of the loop over os.walk('disk'): the
\* listing of the directory comes in any order
WalkDir ==
    /\ pc = "Imaging.walk"
    /\ walk # <<>>
    /\ \E ds \in Perms(SubDirs(fs, Head(walk))), fl \in Perms(FilesIn(fs, Head(walk))) :
          LET r == walk_step(fs, iso, ISO_NUMBERING, ds, fl)
          IN  /\ iso' = r.iso
              /\ ISO_NUMBERING' = r.numbering
              /\ IF r.ok
                 THEN /\ walk' = ds \o Tail(walk)
                      /\ UNCHANGED <<pc, failed, exitStatus>>
                 ELSE /\ Raise("Imaging")
                      /\ UNCHANGED walk
    /\ UNCHANGED <<task, started, runs, calls, prevCalls>>
    /\ UNCHANGED <<fsVars, regVars>>

\* pack.py:92
MakeBootable ==
    /\ pc = "Imaging.walk"
    /\ walk = <<>>
    /\ LET r == make_bootable(iso)
       IN  /\ iso' = r.iso
           /\ IF r.ok
              THEN pc' = "Imaging.write" /\ UNCHANGED <<failed, exitStatus>>
              ELSE Raise("Imaging")
    /\ UNCHANGED <<task, started, runs, walk>>
    /\ UNCHANGED <<isoVars, fsVars, regVars>>

\* pack.py:94-95, iso.write_fp and iso.close; writing may fail
WriteImage(ioOk) ==
    /\ pc = "Imaging.write"
    /\ IF ioOk
       THEN /\ iso' = [iso EXCEPT !.written = TRUE, !.log = Append(@, "write_fp")]
            /\ pc' = "Done"
            /\ exitStatus' = 0
            /\ UNCHANGED failed
       ELSE /\ Raise("Imaging")
            /\ UNCHANGED iso
    /\ UNCHANGED <<task, started, runs, walk>>
    /\ UNCHANGED <<isoVars, fsVars, regVars>>

\* x.py:14-15, the process ends after scripts.main() returned or raised: its
\* memory is gone, the file system stays
ProcessExit ==
    /\ pc \in {"Done", "Failed"}
    /\ pc' = "NotStarted"
    /\ task' = NoTask
    /\ started' = <<>>
    /\ failed' = {}
    /\ exitStatus' = NoExit
    /\ iso' = NewIso
    /\ walk' = <<>>
    /\ ISO_NUMBERING' = EmptyMap
    /\ calls' = <<>>
    /\ prevCalls' = <<>>
    /\ lastOp' = NoOp
    /\ prevOp' = NoOp
    /\ UNCHANGED <<runs, fs, now, envLeft>>
    /\ UNCHANGED regVars

(***************************************************************************)
(* The start of the program: x.py:14-15 and main.py:3-10.                  *)
(***************************************************************************)
\* x.py:14, 'import scripts' loads the modules: limine.py:34 registers
\* 'Limine', build.py:15 registers 'build' and pack.py:40 registers 'pack'
ImportScripts ==
    /\ pc = "NotStarted"
    /\ ~TaskRegistryINSTANCE.exists
    /\ ~BootloaderRegistryINSTANCE.exists
    /\ nextId <= MaxObjects
    /\ LET loader == [id |-> nextId, class |-> "LimineBootloader"]
           b0 == BootloaderRegistry_new(BootloaderRegistryINSTANCE)
           b1 == BootloaderRegistry_register(b0, "Limine", loader)
           t0 == TaskRegistry_new(TaskRegistryINSTANCE)
           t1 == TaskRegistry_register(t0, "build", "BuildTask")
           t2 == TaskRegistry_register(t1.self, "pack", "PackagingTask")
       IN  /\ BootloaderRegistryINSTANCE' = b1.self
           /\ TaskRegistryINSTANCE' = t2.self
           /\ firstBound' =
                 [tasks |-> NoteFirst(NoteFirst(firstBound.tasks, "build",
                                                t1.outcome, "BuildTask"),
                                      "pack", t2.outcome, "PackagingTask"),
                  bootloaders |-> NoteFirst(firstBound.bootloaders, "Limine",
                                            b1.outcome, loader)]
           /\ lastCall' = [registry |-> "tasks", op |-> "register", name |-> "pack",
                           entry |-> [id |-> 0, class |-> "PackagingTask"],
                           outcome |-> t2.outcome, value |-> NoObject,
                           known |-> {"build"},
                           before |-> t1.self.tasks, after |-> t2.self.tasks,
                           objectsBefore |-> nextId - 1]
    /\ nextId' = nextId + 1
    /\ pc' = "Imported"
    /\ UNCHANGED <<args, task, started, failed, exitStatus, runs, iso, walk>>
    /\ UNCHANGED <<isoVars, fsVars>>

\* main.py:4-5, the parser accepts the command line a
ParseArgs(a) ==
    /\ pc = "Imported"
    /\ args' = a
    /\ pc' = "Parsed"
    /\ UNCHANGED <<TaskRegistryINSTANCE, BootloaderRegistryINSTANCE, nextId,
                   lastCall, firstBound>>
    /\ UNCHANGED <<task, started, failed, exitStatus, runs, iso, walk>>
    /\ UNCHANGED <<isoVars, fsVars>>

\* main.py:7, TaskRegistry().create_task(args.action)
MainCreateTask ==
    /\ pc = "Parsed"
    /\ nextId <= MaxObjects
    /\ LET reg == TaskRegistry_new(TaskRegistryINSTANCE)
           r   == create_task(reg, args.action, nextId, BootloaderRegistryINSTANCE)
       IN  /\ TaskRegistryINSTANCE' = reg
           /\ BootloaderRegistryINSTANCE' = r.bootInstance
           /\ nextId' = IF r.outcome = "ok" THEN nextId + 1 ELSE nextId
           /\ lastCall' = [registry |-> "tasks", op |-> "create",
                           name |-> args.action, entry |-> NoObject,
                           outcome |-> r.outcome, value |-> r.value,
                           known |-> DOMAIN firstBound.tasks,
                           before |-> reg.tasks, after |-> reg.tasks,
                           objectsBefore |-> nextId - 1]
           /\ IF r.outcome = "ok"
              THEN pc' = "Created" /\ UNCHANGED <<failed, exitStatus>>
              ELSE Raise("Building")
    /\ UNCHANGED <<firstBound, args, task, started, runs, iso, walk>>
    /\ UNCHANGED <<isoVars, fsVars>>

\* main.py:8 with build.py:36-39 and pack.py:59-62, task.extract_arguments(args)
ExtractArguments ==
    /\ pc = "Created"
    /\ LET reg == BootloaderRegistry_new(BootloaderRegistryINSTANCE)
           r   == get_bootloader(reg, args.bootloader)
       IN  /\ BootloaderRegistryINSTANCE' = reg
           /\ lastCall' = [registry |-> "bootloaders", op |-> "create",
                           name |-> args.bootloader, entry |-> NoObject,
                           outcome |-> r.outcome, value |-> r.value,
                           known |-> DOMAIN firstBound.bootloaders,
                           before |-> reg.bootloaders, after |-> reg.bootloaders,
                           objectsBefore |-> nextId - 1]
           /\ IF r.outcome = "ok"
              THEN /\ pc' = "Extracted"
                   /\ task' = [NoTask EXCEPT !.force = args.force,
                                             !.release = args.release]
                   /\ UNCHANGED <<failed, exitStatus>>
              ELSE /\ Raise("Building")
                   /\ UNCHANGED task
    /\ UNCHANGED <<TaskRegistryINSTANCE, nextId, firstBound, args>>
    /\ UNCHANGED <<started, runs, iso, walk>>
    /\ UNCHANGED <<isoVars, fsVars>>

(***************************************************************************)
(* Specifications.                                                         *)
(***************************************************************************)
Init == IsoInit /\ RegInit /\ FsInit /\ PackInit

NextIso == \E f \in FileNames : MakeIsoCompliant(f)

NextTwice ==
    \/ \E f \in LongRunNames : MakeIsoCompliant(f)
    \/ PackageAgain

NextLong == \E f \in LongRunNames : MakeIsoCompliantLong(f)

NextReg ==
    \/ \E name \in TaskNames, ty \in AnyClasses : RegisterTask(name, ty)
    \/ \E name \in BootloaderNames, class \in AnyLoaderClasses :
          RegisterBootloader(name, class)
    \/ \E name \in TaskNames \cup {"run"} : CreateTask(name)
    \/ \E name \in BootloaderNames : GetBootloader(name)

NextCopy ==
    \/ \E pair \in CopyPairs : TestOrCopy(pair)
    \/ CopyFiles
    \/ Tick
    \/ \E src \in EnvSources : TouchSource(src)
    \/ \E path \in EnvFiles : DeleteFile(path)

NextPack ==
    \/ \E force \in BOOLEAN, release \in Releases : Start(force, release)
    \/ \E outcome \in {"ok", "failed", "missing"} : Build(outcome)
    \/ AssembleRmtree
    \/ AssembleMkdir
    \/ CopyKernel
    \/ BootloaderCopyFiles
    \/ WalkDir
    \/ MakeBootable
    \/ \E ioOk \in BOOLEAN : WriteImage(ioOk)
    \/ ProcessExit
    \/ \E path \in EnvFiles : DeleteFile(path)
    \/ \E path \in StrayFiles : WriteStray(path)

\* the start of one process
NextMain ==
    \/ ImportScripts
    \/ \E a \in ArgSets : ParseArgs(a)
    \/ MainCreateTask
    \/ ExtractArguments

\* runs of the pack command during which staged loader files disappear
NextBoot ==
    \/ \E force \in BOOLEAN, release \in Releases : Start(force, release)
    \/ \E outcome \in {"ok", "failed", "missing"} : Build(outcome)
    \/ AssembleRmtree
    \/ AssembleMkdir
    \/ CopyKernel
    \/ BootloaderCopyFiles
    \/ \E path \in LoaderFiles : DeleteStaged(path)
    \/ WalkDir
    \/ MakeBootable
    \/ \E ioOk \in BOOLEAN : WriteImage(ioOk)
    \/ ProcessExit

Next ==
    NextIso \/ NextTwice \/ NextReg \/ NextCopy \/ NextPack \/ NextBoot \/ NextMain

Spec == Init /\ [][Next]_vars

\* the file name transform alone
SpecIso == Init /\ [][NextIso]_vars

\* the file name transform over a long run
SpecLong == Init /\ [][NextLong]_vars

\* two image assemblies in one process
SpecTwice == Init /\ [][NextTwice]_vars

\* the registries alone
SpecReg == Init /\ [][NextReg]_vars

\* copy-if-newer staging alone
SpecCopy == Init /\ [][NextCopy]_vars

\* runs of the pack command
SpecPack == Init /\ [][NextPack]_vars

\* the start of one process, up to the extraction of the arguments
SpecMain == Init /\ [][NextMain]_vars

\* runs of the pack command with loader files deleted under its feet
SpecBoot == Init /\ [][NextBoot]_vars

(***************************************************************************)
(* Properties of make_iso_compliant.                                       *)
(***************************************************************************)
CallIndexes == 1..Len(calls)

\* a character of the 8.3 charset up to letter case
IsoCharUpToCase(c) == UpperChar(c) \in VALID_ISO_CHARS

\* the name is BASE or BASE.EXT with 1..8 base characters and at most 3
\* extension characters, all of the 8.3 charset up to letter case
Compliant83UpToCase(f) ==
    \E n \in 1..8 :
        /\ n <= Len(f)
        /\ \A i \in 1..n : IsoCharUpToCase(f[i])
        /\ \/ Len(f) = n
           \/ /\ f[n + 1] = "."
              /\ Len(f) - (n + 1) <= 3
              /\ \A i \in (n + 2)..Len(f) : IsoCharUpToCase(f[i])

\* the returned name read as an 8.3 name: what precedes the first dot
BaseOf(r) ==
    LET dots == {i \in 1..Len(r) : r[i] = "."}
    IN  IF dots = {} THEN r
        ELSE SubSeq(r, 1, (CHOOSE i \in dots : \A j \in dots : i <= j) - 1)

\* the returned name read as an 8.3 name: the first dot and what follows it
RestOf(r) == SubSeq(r, Len(BaseOf(r)) + 1, Len(r))

\* C1: within one run, calls on pairwise distinct file names return pairwise
\* distinct short names.
C1_DistinctShortNames ==
    \A i, j \in CallIndexes :
        calls[i].file # calls[j].file => calls[i].result # calls[j].result

\* C2: every returned name is 8.3-compatible: a base of 1..8 characters of
\* the charset, followed by a bare dot or a dot and at most 3 characters of
\* the charset; a numbered base is the 6-character prefix and exactly 2 digits.
C2_Names83 ==
    \A i \in CallIndexes :
        LET r == calls[i].result
            base == BaseOf(r)
            rest == RestOf(r)
        IN  /\ Len(base) \in 1..8
            /\ \A k \in 1..Len(base) : base[k] \in VALID_ISO_CHARS
            /\ Len(rest) \in 1..4
            /\ rest[1] = "."
            /\ \A k \in 2..Len(rest) : rest[k] \in VALID_ISO_CHARS
            /\ calls[i].numbered =>
                  /\ Len(base) = 8
                  /\ SubSeq(base, 1, 6) = calls[i].prefix
                  /\ base[7] \in DigitChars /\ base[8] \in DigitChars

\* C4: a file name that satisfies the 8.3 charset and length limits up to
\* letter case is returned upper-cased, and ISO_NUMBERING is left unchanged.
C4_CompliantPassThrough ==
    \A i \in CallIndexes :
        Compliant83UpToCase(calls[i].file) =>
            /\ calls[i].result = Upper(calls[i].file)
            /\ calls[i].after = calls[i].before

\* witness of C4: a lower-case compliant name is transformed while the map
\* already holds a counter
C4_Witness ==
    \E i \in CallIndexes :
        /\ Compliant83UpToCase(calls[i].file)
        /\ calls[i].file # Upper(calls[i].file)
        /\ calls[i].before # EmptyMap
        /\ calls[i].result = Upper(calls[i].file)

\* the calls before call i that were numbered under the same prefix
EarlierUses(i) ==
    {j \in 1..(i - 1) : calls[j].numbered /\ calls[j].prefix = calls[i].prefix}

\* C5: per prefix the numbers handed out are 1, 2, 3, ... in call order, the
\* counter stored is the number plus one, and two numbered names that share
\* a prefix never get the same output.
C5_SequencePerPrefix ==
    /\ \A i \in CallIndexes :
          calls[i].numbered =>
              /\ calls[i].number = Cardinality(EarlierUses(i)) + 1
              /\ calls[i].prefix \in DOMAIN calls[i].after
              /\ calls[i].after[calls[i].prefix] = calls[i].number + 1
              /\ calls[i].base = calls[i].prefix \o Format02d(calls[i].number)
              /\ EarlierUses(i) = {} =>
                    calls[i].base = calls[i].prefix \o <<"0", "1">>
    /\ \A i, j \in CallIndexes :
          (/\ i # j
           /\ calls[i].numbered /\ calls[j].numbered
           /\ calls[i].prefix = calls[j].prefix)
          => /\ calls[i].number # calls[j].number
             /\ calls[i].result # calls[j].result

\* witness of C5: one prefix has been used three times
C5_Witness ==
    \E i \in CallIndexes :
        /\ calls[i].numbered
        /\ Cardinality(EarlierUses(i)) = 2
        /\ calls[i].number = 3

(***************************************************************************)
(* Properties of the registries.                                           *)
(***************************************************************************)
Errors == {"RuntimeError", "TypeError"}

\* C8: in both registries a register call with a name already present fails
\* and leaves the registry unchanged; every name stays bound to the entry
\* registered first.
C8_DuplicateRegisterFails ==
    /\ (lastCall.op = "register" /\ lastCall.name \in DOMAIN lastCall.before)
          => /\ lastCall.outcome \in Errors
             /\ lastCall.after = lastCall.before
    /\ \A name \in DOMAIN firstBound.tasks :
          name \in DOMAIN Tasks /\ Tasks[name] = firstBound.tasks[name]
    /\ \A name \in DOMAIN firstBound.bootloaders :
          /\ name \in DOMAIN Bootloaders
          /\ Bootloaders[name] = firstBound.bootloaders[name]

\* witness of C8: a register call with a valid entry other than the bound
\* one was made on a name already present
C8_Witness ==
    /\ lastCall.op = "register"
    /\ lastCall.registry = "tasks"
    /\ lastCall.name \in DOMAIN lastCall.before
    /\ lastCall.entry.class \in TaskClasses
    /\ lastCall.entry.class # lastCall.before[lastCall.name]

\* C9: create succeeds exactly when the name was registered by an earlier
\* successful register call, it never changes the registered names, and the
\* registry is never reset: it holds exactly the names registered so far.
C9_CreateIffRegistered ==
    /\ lastCall.op = "create" =>
          /\ lastCall.outcome = "ok" <=> lastCall.name \in lastCall.known
          /\ lastCall.outcome # "ok" => lastCall.outcome \in Errors
          /\ lastCall.after = lastCall.before
    /\ DOMAIN Tasks = DOMAIN firstBound.tasks
    /\ DOMAIN Bootloaders = DOMAIN firstBound.bootloaders

\* witness of C9: a task was created after both task names were registered,
\* that is after several constructions of the registry
C9_Witness ==
    /\ lastCall.op = "create"
    /\ lastCall.registry = "tasks"
    /\ lastCall.outcome = "ok"
    /\ DOMAIN Tasks = TaskNames

(***************************************************************************)
(* Properties of the staging.                                              *)
(***************************************************************************)
\* C6: test_or_copy copies exactly when the target does not exist or the
\* source is strictly newer; with the target present and not older than the
\* source nothing is copied and the target is left as it was.
C6_CopyIffNewer ==
    LET b == lastOp.before
        t == lastOp.target
        c == lastOp.copy
    IN  (lastOp.op = "test_or_copy" /\ lastOp.ok) =>
            /\ lastOp.copied = {t} <=>
                  (~exists(b, t) \/ b.files[c] > b.files[t])
            /\ lastOp.copied \subseteq {t}
            /\ (exists(b, t) /\ b.files[t] >= b.files[c]) =>
                  /\ lastOp.copied = {}
                  /\ fs = b

\* witness of C6: test_or_copy ran on a target exactly as old as its source
C6_Witness ==
    /\ lastOp.op = "test_or_copy"
    /\ lastOp.ok
    /\ lastOp.target \in DOMAIN lastOp.before.files
    /\ lastOp.before.files[lastOp.target] = lastOp.before.files[lastOp.copy]
    /\ lastOp.copied = {}

\* C7: a second test_or_copy on the same pair right after a first one, and a
\* second copy_files right after a first one, copies nothing when no source
\* was changed in between.
C7_SecondCallNoCopy ==
    /\ (/\ lastOp.op = "test_or_copy"
        /\ prevOp.op = "test_or_copy"
        /\ prevOp.target = lastOp.target
        /\ prevOp.ok)
       => lastOp.ok /\ lastOp.copied = {} /\ fs = lastOp.before
    /\ (lastOp.op = "copy_files" /\ prevOp.op = "copy_files" /\ prevOp.ok)
       => lastOp.ok /\ lastOp.copied = {} /\ fs = lastOp.before

\* witness of C7: the first of two copy_files calls in a row replaced an
\* older target
C7_Witness ==
    /\ lastOp.op = "copy_files"
    /\ prevOp.op = "copy_files"
    /\ \E t \in prevOp.copied :
          /\ t \in DOMAIN prevOp.before.files
          /\ prevOp.before.files[t] < lastOp.before.files[t]

(***************************************************************************)
(* Properties of the pack pipeline.                                        *)
(***************************************************************************)
Stages == <<"Building", "Staging", "Imaging">>

\* C3: the stages are started in the order Building, Staging, Imaging, each
\* at most once; a stage that failed, the build process exiting with a
\* nonzero status included, is the last stage started, and the run then ends
\* with a nonzero exit status; the exit status is zero only when no stage
\* failed and the image was written.
C3_FailFast ==
    /\ Len(started) <= Len(Stages)
    /\ started = SubSeq(Stages, 1, Len(started))
    /\ \A stage \in failed : started # <<>> /\ stage = Last(started)
    /\ (pc \in {"Done", "Failed"} /\ failed # {}) => exitStatus \notin {0, NoExit}
    /\ exitStatus = 0 => failed = {} /\ started = Stages /\ iso.written

\* what exists at or below 'disk'
StagingTree == {q \in DOMAIN fs.files \cup fs.dirs : Under(q, P_disk)}

\* C10: in a run with force set the old staging root is gone before the root
\* is created again; the root exists when the kernel and the bootloader
\* files are copied; and once the staging succeeded the tree holds exactly
\* system/kernel and the bootloader's files in their directories, nothing of
\* what lay there before the run.
C10_ForcedStagingExact ==
    /\ (pc = "Staging.mkdir" /\ task.force) => StagingTree = {}
    /\ pc \in {"Staging.copy_kernel", "Staging.copy_files"} => P_disk \in fs.dirs
    /\ (started = Stages /\ task.force) =>
          /\ {q \in DOMAIN fs.files : Under(q, P_disk)} = StagedFiles
          /\ {d \in fs.dirs : Under(d, P_disk)} = StagedDirs
          /\ task.before \cap StagingTree = {}

\* witness of C10: a later run with force set finished its staging over a
\* root that held a file the staging never writes
C10_Witness ==
    /\ pc = "Imaging.walk"
    /\ task.force
    /\ runs > 1
    /\ LimineTarget \o <<F_LIMINE01>> \in task.before

(***************************************************************************)
(* Properties of the image assembly.                                       *)
(***************************************************************************)
\* make_bootable returned without an exception in the current run
Booted == started = Stages /\ pc \in {"Imaging.write", "Done"}

\* C11: after a successful make_bootable the boot catalog holds exactly two
\* entries, the BIOS entry first and the UEFI entry second: both without
\* emulation and with a boot load size of 4 sectors, the BIOS entry with the
\* boot info table and without efi, the UEFI entry with efi.
C11_TwoBootEntries ==
    Booted =>
        /\ Len(iso.eltorito) = 2
        /\ \A i \in 1..2 : /\ iso.eltorito[i].media_name = "noemul"
                            /\ iso.eltorito[i].boot_load_size = 4
        /\ iso.eltorito[1].boot_info_table /\ ~iso.eltorito[1].efi
        /\ iso.eltorito[2].efi

\* witness of C11: make_bootable succeeded on an image that holds both loader
\* records
C11_Witness ==
    /\ pc = "Imaging.write"
    /\ get_record(iso, <<D_limine, F_limine_bios_cd>>) # {}
    /\ get_record(iso, <<D_limine, F_limine_uefi_cd>>) # {}
    /\ iso.eltorito # <<>>

(***************************************************************************)
(* Further properties of make_iso_compliant.                               *)
(***************************************************************************)
\* the extension of a file name as handed in, with its dot
ExtOf(f) == splitext(f)[2]

\* the extension is kept: at most 4 characters with the dot, and all of the
\* charset after the dot once upper-cased
ExtKept(ext) ==
    /\ Len(ext) \in 1..4
    /\ \A k \in 2..Len(ext) : UpperChar(ext[k]) \in VALID_ISO_CHARS

\* C12: every returned name is the base followed by the upper-cased
\* extension, or by a bare dot when the extension is longer than 4
\* characters with its dot, holds a character outside the charset, or is
\* missing.
C12_BaseDotExt ==
    \A i \in CallIndexes :
        LET ext == ExtOf(calls[i].file)
        IN  calls[i].result =
                calls[i].base \o (IF ExtKept(ext) THEN Upper(ext) ELSE <<".">>)

\* the base of a file name as handed in
LiteralBase(f) == splitext(f)[1]

\* the base after upper-casing and replacement, pack.py:14-23
SanitizedBase(f) == Sanitize(Upper(LiteralBase(f)))

\* C13 as stated: a base is numbered exactly when its sanitized form is
\* longer than 8 characters or differs from the base as handed in, a letter
\* that was only upper-cased counting as a difference.
C13_NumberedIffDiffersFromLiteral ==
    \A i \in CallIndexes :
        calls[i].numbered <=>
            \/ Len(SanitizedBase(calls[i].file)) > 8
            \/ SanitizedBase(calls[i].file) # LiteralBase(calls[i].file)

\* C13 as amended: a base is numbered exactly when it is longer than 8
\* characters or holds a character that is outside the charset even after
\* upper-casing; a numbered base is the first 6 sanitized characters and the
\* number, any other base is returned upper-cased.
C13_NumberedIffReplaced ==
    \A i \in CallIndexes :
        LET b == LiteralBase(calls[i].file)
        IN  /\ calls[i].numbered <=>
                  \/ Len(b) > 8
                  \/ \E k \in 1..Len(b) : ~IsoCharUpToCase(b[k])
            /\ calls[i].numbered =>
                  calls[i].base = Take(SanitizedBase(calls[i].file), 6)
                                     \o Format02d(calls[i].number)
            /\ ~calls[i].numbered => calls[i].base = Upper(b)

\* witness of C13: a base that only changes its letter case was not
\* numbered, and a base with a replaced character was
C13_Witness ==
    /\ \E i \in CallIndexes :
          /\ LiteralBase(calls[i].file) # Upper(LiteralBase(calls[i].file))
          /\ ~calls[i].numbered
    /\ \E i \in CallIndexes :
          /\ Len(LiteralBase(calls[i].file)) <= 8
          /\ calls[i].numbered

\* C14: every image assembly starts from an empty ISO_NUMBERING, and a second
\* assembly in the same process that is handed the same file names in the
\* same order returns the same short names as the first.
C14_FreshMapPerAssembly ==
    /\ calls = <<>> => ISO_NUMBERING = EmptyMap
    /\ \A i \in CallIndexes :
          (/\ i <= Len(prevCalls)
           /\ \A k \in 1..i : calls[k].file = prevCalls[k].file)
          => calls[i].result = prevCalls[i].result

(***************************************************************************)
(* Further properties of the staging and the image assembly.               *)
(***************************************************************************)
\* C15: without force, a staged kernel that is not older than the built
\* artifact is not copied again, and a staging that finds every staged file
\* up to date copies nothing at all.
C15_KernelCopyIfNewer ==
    /\ (~task.force /\ task.kernelUpToDate) => ~task.kernelCopied
    /\ (~task.force /\ task.allUpToDate /\ started = Stages) => ~task.anyCopied

\* the calls on the image are in the order additions, boot entries, write:
\* nothing is added after the first boot entry, and the image is written at
\* most once, as the last call and after make_bootable registered its entries
BootAndWriteLast(log) ==
    /\ \A i, j \in 1..Len(log) :
          (i < j /\ log[i] = "add_eltorito") =>
              log[j] \in {"add_eltorito", "write_fp"}
    /\ \A i \in 1..Len(log) :
          log[i] = "write_fp" =>
              /\ i = Len(log)
              /\ \E k \in 1..(i - 1) : log[k] = "add_eltorito"

\* no directory is added after a file
DirsThenFiles(log) ==
    \A i, j \in 1..Len(log) :
        (i < j /\ log[i] = "add_file") => log[j] # "add_directory"

\* C16 as stated: over the whole image every directory is added before any
\* file, every file before the first boot entry, and the image is written
\* once, after make_bootable returned.
C16_GlobalPhases ==
    /\ DirsThenFiles(iso.log)
    /\ BootAndWriteLast(iso.log)
    /\ iso.written <=> (iso.log # <<>> /\ Last(iso.log) = "write_fp")

\* the calls on the image of the step just taken
NewCalls == SubSeq(iso'.log, Len(iso.log) + 1, Len(iso'.log))

\* C16 as amended: in every directory that os.walk visits the subdirectories
\* are added before the files of that directory; every addition precedes the
\* first boot entry; and the image is written once, after make_bootable
\* returned.
C16_PhasesPerDirectory ==
    [][/\ pc = "Imaging.walk" => DirsThenFiles(NewCalls)
       /\ BootAndWriteLast(iso'.log)
       /\ iso'.written <=> (iso'.log # <<>> /\ Last(iso'.log) = "write_fp")
      ]_vars

\* witness of C16: an image was written in whose assembly a nested directory
\* was added after a file
C16_Witness ==
    /\ pc = "Done"
    /\ iso.written
    /\ ~DirsThenFiles(iso.log)

(***************************************************************************)
(* Further properties of the registries.                                   *)
(***************************************************************************)
\* C17: in both registries a successful create or lookup returns an object
\* that did not exist before the call, so no two calls return the same
\* object.
C17_FreshInstance ==
    (lastCall.op = "create" /\ lastCall.outcome = "ok") =>
        lastCall.value.id > lastCall.objectsBefore

\* the image lacks the record of a loader file
BiosMissing == get_record(iso, <<D_limine, F_limine_bios_cd>>) = {}

UefiMissing == get_record(iso, <<D_limine, F_limine_uefi_cd>>) = {}

\* C18: when the tree was added and the image lacks the record of the BIOS
\* loader or of the UEFI loader, make_bootable raises: the run fails with a
\* nonzero exit status, and the image is never written.
C18_MissingRecordFails ==
    [][(/\ pc = "Imaging.walk"
        /\ walk = <<>>
        /\ (BiosMissing \/ UefiMissing))
       => /\ pc' = "Failed"
          /\ "Imaging" \in failed'
          /\ exitStatus' = 1
          /\ ~iso'.written
          /\ "write_fp" \notin {iso'.log[i] : i \in 1..Len(iso'.log)}
      ]_vars

\* witness of C18: make_bootable registered the BIOS entry, did not find the
\* record of the UEFI loader, and the run failed
C18_Witness ==
    /\ pc = "Failed"
    /\ started = Stages
    /\ walk = <<>>
    /\ ~BiosMissing
    /\ UefiMissing
    /\ ~iso.written

\* C19: every name that the parser accepts for --bootloader is registered
\* when the task extracts its arguments, and the lookup of extract_arguments
\* succeeds for it.
C19_AcceptedBootloadersRegistered ==
    /\ pc \in {"Parsed", "Created"}
       => args.bootloader \in DOMAIN BootloaderRegistryINSTANCE.bootloaders
    /\ (/\ lastCall.registry = "bootloaders"
        /\ lastCall.op = "create"
        /\ lastCall.name \in BootloaderNames)
       => lastCall.outcome = "ok"

(***************************************************************************)
(* The boot entries and the numbering of the loader files.                 *)
(***************************************************************************)
\* the file records of the image that the boot entry e refers to
BootRecords(e) == {r \in iso.records : r.kind = "file" /\ r.iso_path = e.bootfile}

\* C20: whatever the order in which the staged files were enumerated, after
\* a successful make_bootable the BIOS entry refers to exactly the record
\* with the alternate name limine/limine-bios-cd.bin, the UEFI entry to
\* exactly the record with the alternate name limine/limine-uefi-cd.bin,
\* and the two entries refer to different records.
C20_BootEntriesFollowRecords ==
    Booted =>
        /\ BootRecords(iso.eltorito[1]) # {}
        /\ BootRecords(iso.eltorito[1])
              = get_record(iso, <<D_limine, F_limine_bios_cd>>)
        /\ BootRecords(iso.eltorito[2]) # {}
        /\ BootRecords(iso.eltorito[2])
              = get_record(iso, <<D_limine, F_limine_uefi_cd>>)
        /\ BootRecords(iso.eltorito[1]) \cap BootRecords(iso.eltorito[2]) = {}

\* witness of C20: make_bootable succeeded on an image whose enumeration gave
\* the number 01 to a loader file other than limine-bios-cd.bin, so that the
\* BIOS entry refers to a name with a later number
C20_Witness ==
    /\ Booted
    /\ \E r \in get_record(iso, <<D_limine, F_limine_uefi_cd>>) :
          r.file_ident = F_LIMINE01 \o <<";", "1">>
    /\ iso.eltorito[1].bootfile # <<Upper(D_limine), F_LIMINE01 \o <<";", "1">> >>

====
